---- MODULE Spec2Model ----
(***************************************************************************)
(* SNB-Data-Streamliner: the identifier registry (valid_cubes_ids,         *)
(* is_valid_cube_id), the fetch engine SNBDataEngine (src/src/extractor.py)*)
(* and the command line entry point main (src/src/__main__.py).            *)
(*                                                                         *)
(* Formatted strings are modelled as tuples of their parts:                *)
(*   f"{base_url}/{cube_id}/data/csv/en"   is <<base_url, cube_id, ...>>   *)
(*   f"selectionConfiguration,{selection}" is <<"selectionConfiguration",  *)
(*                                              selection>>                *)
(*   Path(folder) / f"{cube_id}_{selection or 'all'}.csv"                  *)
(*                                         is <<folder, cube_id, sel>>     *)
(* Python's None is the value None below.                                  *)
(***************************************************************************)
EXTENDS Integers, Sequences, FiniteSets, TLC

VARIABLES
    table,              \* rows of metadata/cubes_list.csv, header first
    args,               \* the parsed command line (main)
    pc,                 \* position of the caller
    logging_verbosity,  \* SNBDataEngine.logging_verbosity
    session,            \* SNBDataEngine.session: "None", "live" or "closed"
    opens,              \* requests.Session() objects created
    closes,             \* calls of session.close()
    events,             \* network requests and pauses, in order
    files,              \* the disk: path -> content
    loop,               \* download_to_files: cubes_ids, position, paths
    result,             \* how the last call ended
    call,               \* the last call: its name, arguments, server answer
    ops                 \* number of fetch or registry calls made so far

vars == <<table, args, pc, logging_verbosity, session, opens, closes,
          events, files, loop, result, call, ops>>

-----------------------------------------------------------------------------
(* Bounds of the model *)

MaxRows == 2

MaxCubes == 3

MaxOps == 2

MaxOpens == 1

MaxCloses == 2

-----------------------------------------------------------------------------
(* Values *)

None == "<None>"

HeaderId == "cube_id"

HeaderRow == <<HeaderId, "description">>

DataIds == {"rentm", "xyz"}

AllIds == DataIds \cup {HeaderId, "notacube"}

\* Strings a caller may ask the registry about.
QueryIds == AllIds \cup {"", "RENTM", "Mortgage rates"}

DescrOf(id) == IF id = "rentm" THEN "Mortgage rates" ELSE "Exchange rates"

RECURSIVE SeqsUpTo(_, _)
SeqsUpTo(S, n) ==
    IF n = 0 THEN {<<>>}
    ELSE LET shorter == SeqsUpTo(S, n - 1)
         IN  shorter \cup {Append(s, x) : s \in shorter, x \in S}

IdOrder(id) == IF id = "rentm" THEN 1 ELSE 2

\* No identifier twice, in the order of the file.
IsListing(s) == \A i, j \in 1..Len(s) : i < j => IdOrder(s[i]) < IdOrder(s[j])

\* A reference table: the header row, then one row per known identifier.
Tables ==
    {<<HeaderRow>> \o [i \in 1..Len(ids) |-> <<ids[i], DescrOf(ids[i])>>] :
        ids \in {s \in SeqsUpTo(DataIds, MaxRows) : IsListing(s)}}

Selections == {None, "", "balsiscrevol"}

EmptyDict == [k \in {} |-> <<>>]

\* Keyword arguments a caller may pass as **config.
Configs ==
    { EmptyDict,
      [k \in {"outputFormat"} |-> <<"pivoted">>],
      [k \in {"selectionConfigurations"} |-> <<"other">>],
      [k \in {"dimSel"} |-> <<"D0">>] }

Verbosities == {None, "v", "vv", "x"}

StatusCodes == {200, 404}

ContentLengths == {None, "1234", "abc"}

\* What the server does with one request.
Responses ==
    {[conn |-> "refused", status |-> 0, clen |-> None, stream |-> "none",
      kind |-> "none"]}
    \cup [conn : {"ok"}, status : StatusCodes, clen : ContentLengths,
          stream : {"complete", "interrupted"}, kind : {"csv", "junk"}]

\* What random() * 5 may give, as whole seconds.
RandomDraws == {1, 4}

Folder == "data/raw"

-----------------------------------------------------------------------------
(* Identifier registry *)

\* next(zip(*reader)): the first field of every row the reader yields.
valid_cubes_ids(t) == [i \in 1..Len(t) |-> t[i][1]]

\* x in tuple
In(x, tuple) == \E i \in 1..Len(tuple) : tuple[i] = x

\* cube_ids, _ = zip(*reader); cube_id in cube_ids
is_valid_cube_id(t, cube_id) ==
    LET cube_ids == [i \in 1..Len(t) |-> t[i][1]]
    IN  In(cube_id, cube_ids)

\* The identifiers of the data records: every row after the header row,
\* as list_info_cubes reads the table (column names = next(reader)).
RecordIds(t) == {t[i][1] : i \in 2..Len(t)}

-----------------------------------------------------------------------------
(* Fetch engine *)

base_url == "https://data.snb.ch/api/cube"

\* __init__: the verbosity the engine keeps.
init_verbosity(v) ==
    IF v \in {"v", "V"} THEN v
    ELSE IF v \in {"vv", "VV"} THEN v
    ELSE None

\* Python truthiness of an Optional[str].
Truthy(s) == s # None /\ s # ""

\* dict | dict: the right operand wins on a common key.
DictMerge(a, b) ==
    [k \in DOMAIN a \cup DOMAIN b |-> IF k \in DOMAIN b THEN b[k] ELSE a[k]]

\* The url and the query of the request _get_stream makes.
build_request(cube_id, selection, config) ==
    LET url    == <<base_url, cube_id, "data/csv/en">>
        fixed  == [k \in {"outputFormat"} |-> <<"nonPivoted">>]
        params == IF Truthy(selection)
                  THEN DictMerge(fixed,
                         [k \in {"selectionConfigurations"} |->
                             <<"selectionConfiguration", selection>>])
                  ELSE fixed
    IN  [op |-> "get", url |-> url, params |-> DictMerge(params, config),
         secs |-> 0]

Ok(path, paths, df) ==
    [kind |-> "ok", err |-> "", path |-> path, paths |-> paths, df |-> df]

Raise(err) ==
    [kind |-> "error", err |-> err, path |-> <<>>, paths |-> <<>>, df |-> <<>>]

NoResult ==
    [kind |-> "none", err |-> "", path |-> <<>>, paths |-> <<>>, df |-> <<>>]

\* self.session.get(url, params, stream=True): on no session the attribute
\* lookup fails; a session that was closed opens a connection again (close
\* only drops the pooled connections of requests.Session).
_get_stream(sess, cube_id, selection, config, resp, evs) ==
    IF sess = "None"
    THEN [result |-> Raise("AttributeError"), events |-> evs]
    ELSE [result |-> IF resp.conn = "refused" THEN Raise("ConnectionError")
                     ELSE Ok(<<>>, <<>>, <<>>),
          events |-> Append(evs, build_request(cube_id, selection, config))]

\* int(response.headers.get('Content-Length', '0')) raises on a non-number.
_audit_response(resp) ==
    LET raw_size == IF resp.clen = None THEN "0" ELSE resp.clen
    IN  IF raw_size \in {"0", "1234"} THEN Ok(<<>>, <<>>, <<>>)
        ELSE Raise("ValueError")

FilePath(folder, cube_id, selection) ==
    <<folder, cube_id, IF Truthy(selection) THEN selection ELSE "all">>

Body(cube_id, resp) ==
    [written |-> "all", of |-> cube_id, status |-> resp.status,
     kind |-> resp.kind]

Partial(cube_id, resp) ==
    [written |-> "part", of |-> cube_id, status |-> resp.status,
     kind |-> resp.kind]

\* open(path, 'wb') and the writes that follow.
WriteFile(fs, path, content) ==
    [p \in DOMAIN fs \cup {path} |-> IF p = path THEN content ELSE fs[p]]

download_to_file(lv, sess, cube_id, selection, config, resp, fs, evs) ==
    LET path == FilePath(Folder, cube_id, selection)
        got  == _get_stream(sess, cube_id, selection, config, resp, evs)
        aud  == IF lv # None THEN _audit_response(resp)
                ELSE Ok(<<>>, <<>>, <<>>)
    IN  IF got.result.kind = "error"
        THEN [result |-> got.result, files |-> fs, events |-> got.events]
        ELSE IF aud.kind = "error"
        THEN [result |-> aud, files |-> fs, events |-> got.events]
        ELSE IF resp.stream = "interrupted"
        THEN [result |-> Raise("ChunkedEncodingError"),
              files |-> WriteFile(fs, path, Partial(cube_id, resp)),
              events |-> got.events]
        ELSE [result |-> Ok(path, <<>>, <<>>),
              files |-> WriteFile(fs, path, Body(cube_id, resp)),
              events |-> got.events]

\* pd.read_csv(..., sep=';', skiprows=2) of a body.
read_csv(content) ==
    IF content.kind = "csv" THEN Ok(<<>>, <<>>, <<content.of, content.status>>)
    ELSE Raise("ParserError")

download_to_dataframe(lv, sess, cube_id, selection, config, resp, fs, evs) ==
    LET got == _get_stream(sess, cube_id, selection, config, resp, evs)
        aud == IF lv # None THEN _audit_response(resp)
               ELSE Ok(<<>>, <<>>, <<>>)
    IN  IF got.result.kind = "error"
        THEN [result |-> got.result, files |-> fs, events |-> got.events]
        ELSE IF aud.kind = "error"
        THEN [result |-> aud, files |-> fs, events |-> got.events]
        ELSE IF resp.stream = "interrupted"
        THEN [result |-> Raise("ChunkedEncodingError"), files |-> fs,
              events |-> got.events]
        ELSE [result |-> read_csv(Body(cube_id, resp)), files |-> fs,
              events |-> got.events]

Min(a, b) == IF a < b THEN a ELSE b

PauseEvent(draw) ==
    [op |-> "pause", url |-> <<>>, params |-> EmptyDict,
     secs |-> Min(draw, 2)]

\* A loop that goes on to the next identifier after a failed download.
files_iteration_continue(lv, sess, lp, selection, config, resp, draw, fs, evs) ==
    LET d == download_to_file(lv, sess, lp.cubes_ids[lp.i], selection,
                              config, resp, fs, evs)
    IN  [loop |-> [lp EXCEPT !.i = @ + 1,
                             !.paths = IF d.result.kind = "error" THEN @
                                       ELSE Append(@, d.result.path)],
         result |-> NoResult, files |-> d.files,
         events |-> IF Len(lp.cubes_ids) > 1
                    THEN Append(d.events, PauseEvent(draw))
                    ELSE d.events]

\* One pass of the for loop of download_to_files over cubes_ids[lp.i].
files_iteration(lv, sess, lp, selection, config, resp, draw, fs, evs) ==
    LET d == download_to_file(lv, sess, lp.cubes_ids[lp.i], selection,
                              config, resp, fs, evs)
    IN  IF d.result.kind = "error"
        THEN [loop |-> lp, result |-> d.result, files |-> d.files,
              events |-> d.events]
        ELSE [loop |-> [lp EXCEPT !.i = @ + 1,
                                  !.paths = Append(@, d.result.path)],
              result |-> NoResult, files |-> d.files,
              events |-> IF Len(lp.cubes_ids) > 1
                         THEN Append(d.events, PauseEvent(draw))
                         ELSE d.events]

IsGet(e) == e.op = "get"

IsPause(e) == e.op = "pause"

Gets(evs) == SelectSeq(evs, IsGet)

Pauses(evs) == SelectSeq(evs, IsPause)

NoLoop == [cubes_ids |-> <<>>, i |-> 0, paths |-> <<>>]

NoArgs == [cubes |-> <<>>, save |-> FALSE, verbose |-> 0]

\* An __exit__ that leaves the session as it is.
exit_keeps_open(sess) == sess

\* __exit__: close the session when there is one; the session is kept.
exit_session(sess) == IF sess # "None" THEN "closed" ELSE sess

exit_closes(sess) == IF sess # "None" THEN 1 ELSE 0


NoResp ==
    [conn |-> "none", status |-> 0, clen |-> None, stream |-> "none",
     kind |-> "none"]

\* A call as the caller made it, what the server answered, the state of
\* the session before it, and whether it sent a request.
Call(op, cube_id, selection, config, resp, before, sent) ==
    [op |-> op, cube_id |-> cube_id, selection |-> selection,
     config |-> config, resp |-> resp, before |-> before, sent |-> sent]

NoCall == Call("none", "", None, EmptyDict, NoResp, "None", FALSE)

NoFiles == [p \in {} |-> Body("", NoResp)]

-----------------------------------------------------------------------------
(* Command line: main *)

\* v_level = 'v' * min(args.verbose, 2) or None
v_level(verbose) ==
    IF Min(verbose, 2) = 0 THEN None
    ELSE IF Min(verbose, 2) = 1 THEN "v"
    ELSE "vv"

\* A check that looks at the first identifier only.
main_validate_first_only(cubes, valid_cube_ids) ==
    IF ~In(cubes[1], valid_cube_ids) THEN 1 ELSE 0

\* for cube in args.cubes: if cube not in valid_cube_ids: raise ...
\* The position of the identifier that raises, 0 when none does.
main_validate(cubes, valid_cube_ids) ==
    IF \A i \in 1..Len(cubes) : In(cubes[i], valid_cube_ids) THEN 0
    ELSE CHOOSE i \in 1..Len(cubes) :
             /\ ~In(cubes[i], valid_cube_ids)
             /\ \A j \in 1..(i - 1) : In(cubes[j], valid_cube_ids)

\* list(dict.fromkeys(cubes)): first occurrences, in order.
RECURSIVE Dedup(_)
Dedup(cubes) ==
    IF cubes = <<>> THEN <<>>
    ELSE LET front == Dedup(SubSeq(cubes, 1, Len(cubes) - 1))
             last  == cubes[Len(cubes)]
         IN  IF In(last, front) THEN front ELSE Append(front, last)

\* csv_to_dataframe(path): the parsed file, or None when there is no file.
csv_to_dataframe(fs, path) ==
    IF path \in DOMAIN fs THEN read_csv(fs[path]) ELSE NoResult

\* df = csv_to_dataframe(path, skiprows=2); print(df.head())
load_and_print(fs, path) ==
    LET df == csv_to_dataframe(fs, path)
    IN  IF df.kind = "none" THEN Raise("AttributeError") ELSE df

\* for i, path in enumerate(paths): df = csv_to_dataframe(path); ...
inspect_paths(fs, paths) ==
    IF \E i \in 1..Len(paths) : csv_to_dataframe(fs, paths[i]).kind = "error"
    THEN Raise("ParserError")
    ELSE Ok(<<>>, paths, <<>>)

\* What __exit__ returns, as a truth value: it returns None.
exit_suppresses == FALSE

Init ==
    /\ table \in Tables
    /\ args \in [cubes : SeqsUpTo(AllIds, MaxCubes) \ {<<>>},
                 save : BOOLEAN, verbose : 0..3]
    /\ pc = "validate"
    /\ logging_verbosity = None
    /\ session = "None"
    /\ opens = 0
    /\ closes = 0
    /\ events = <<>>
    /\ files = NoFiles
    /\ loop = NoLoop
    /\ result = NoResult
    /\ call = NoCall
    /\ ops = 0

\* lines 76-79: the identifiers are checked before anything else
MainValidate ==
    /\ pc = "validate"
    /\ \E bad \in {main_validate(args.cubes, valid_cubes_ids(table))} :
          IF bad # 0
          THEN /\ result' = Raise("InvalidCubeIDError")
               /\ call' = Call("raise", args.cubes[bad], None, EmptyDict,
                               NoResp, session, FALSE)
               /\ pc' = "done"
          ELSE /\ pc' = "enter"
               /\ UNCHANGED <<result, call>>
    /\ UNCHANGED <<table, args, logging_verbosity, session, opens, closes,
                   events, files, loop, ops>>

\* with SNBDataEngine(logging_verbosity=v_level) as snb:
MainEnter ==
    /\ pc = "enter"
    /\ logging_verbosity' = init_verbosity(v_level(args.verbose))
    /\ session' = "live"
    /\ opens' = opens + 1
    /\ IF Len(args.cubes) = 1
       THEN /\ pc' = IF args.save THEN "single_save" ELSE "single_ram"
            /\ loop' = loop
       ELSE /\ pc' = "multi"
            /\ loop' = [cubes_ids |-> Dedup(args.cubes), i |-> 1,
                        paths |-> <<>>]
    /\ UNCHANGED <<table, args, closes, events, files, result, call, ops>>

\* lines 88-90
MainSingleSave ==
    /\ pc = "single_save"
    /\ \E resp \in Responses :
          \E d \in {download_to_file(logging_verbosity, session,
                                     args.cubes[1], None, EmptyDict, resp,
                                     files, events)} :
              /\ files' = d.files
              /\ events' = d.events
              /\ result' = IF d.result.kind = "error" THEN d.result
                           ELSE load_and_print(d.files, d.result.path)
    /\ call' = Call("download_to_file", args.cubes[1], None, EmptyDict,
                    NoResp, session, TRUE)
    /\ pc' = "exit"
    /\ ops' = ops + 1
    /\ UNCHANGED <<table, args, logging_verbosity, session, opens, closes,
                   loop>>

\* lines 94-96
MainSingleRam ==
    /\ pc = "single_ram"
    /\ \E resp \in Responses :
          \E d \in {download_to_dataframe(logging_verbosity, session,
                                          args.cubes[1], None, EmptyDict,
                                          resp, files, events)} :
              /\ files' = d.files
              /\ events' = d.events
              /\ result' = d.result
    /\ call' = Call("download_to_dataframe", args.cubes[1], None, EmptyDict,
                    NoResp, session, TRUE)
    /\ pc' = "exit"
    /\ ops' = ops + 1
    /\ UNCHANGED <<table, args, logging_verbosity, session, opens, closes,
                   loop>>

\* line 101: one pass of the loop of download_to_files
MainMultiIter ==
    /\ pc = "multi"
    /\ loop.i <= Len(loop.cubes_ids)
    /\ \E resp \in Responses, draw \in RandomDraws :
          \E r \in {files_iteration(logging_verbosity, session, loop, None,
                                    EmptyDict, resp, draw, files, events)} :
              /\ loop' = r.loop
              /\ result' = r.result
              /\ files' = r.files
              /\ events' = r.events
              /\ pc' = IF r.result.kind = "error" THEN "exit" ELSE "multi"
    /\ call' = Call("download_to_files", loop.cubes_ids[loop.i], None,
                    EmptyDict, NoResp, session, TRUE)
    /\ ops' = ops + 1
    /\ UNCHANGED <<table, args, logging_verbosity, session, opens, closes>>

\* lines 101-107: download_to_files returns, the files are inspected
MainMultiInspect ==
    /\ pc = "multi"
    /\ loop.i > Len(loop.cubes_ids)
    /\ result' = inspect_paths(files, loop.paths)
    /\ pc' = "exit"
    /\ UNCHANGED <<table, args, logging_verbosity, session, opens, closes,
                   events, files, loop, call, ops>>

\* the with block is left: __exit__ runs, with the exception if one is
\* pending, and the exception goes on unless __exit__ returns a true value
MainExit ==
    /\ pc = "exit"
    /\ session' = exit_session(session)
    /\ closes' = closes + exit_closes(session)
    /\ result' = IF result.kind = "error" /\ exit_suppresses
                 THEN NoResult ELSE result
    /\ pc' = "done"
    /\ UNCHANGED <<table, args, logging_verbosity, opens, events, files,
                   loop, call, ops>>

Next ==
    \/ MainValidate
    \/ MainEnter
    \/ MainSingleSave
    \/ MainSingleRam
    \/ MainMultiIter
    \/ MainMultiInspect
    \/ MainExit

Spec == Init /\ [][Next]_vars

-----------------------------------------------------------------------------
(* A library caller of one engine: any method, in any order *)

InitEngine ==
    /\ table = <<HeaderRow>>
    /\ args = NoArgs
    /\ pc = "lib"
    /\ logging_verbosity \in {init_verbosity(v) : v \in Verbosities}
    /\ session = "None"
    /\ opens = 0
    /\ closes = 0
    /\ events = <<>>
    /\ files = NoFiles
    /\ loop = NoLoop
    /\ result = NoResult
    /\ call = NoCall
    /\ ops = 0

\* __enter__
Enter ==
    /\ pc = "lib"
    /\ opens < MaxOpens
    /\ session' = "live"
    /\ opens' = opens + 1
    /\ call' = Call("enter", "", None, EmptyDict, NoResp, session, FALSE)
    /\ result' = NoResult
    /\ UNCHANGED <<table, args, pc, logging_verbosity, closes, events, files,
                   loop, ops>>

\* __exit__
Exit ==
    /\ pc = "lib"
    /\ closes < MaxCloses
    /\ session' = exit_session(session)
    /\ closes' = closes + exit_closes(session)
    /\ call' = Call("exit", "", None, EmptyDict, NoResp, session, FALSE)
    /\ result' = NoResult
    /\ UNCHANGED <<table, args, pc, logging_verbosity, opens, events, files,
                   loop, ops>>

CallDownloadToFile ==
    /\ pc = "lib"
    /\ ops < MaxOps
    /\ \E cube_id \in {"rentm"}, selection \in Selections,
          config \in Configs, resp \in Responses :
          \E d \in {download_to_file(logging_verbosity, session, cube_id,
                                     selection, config, resp, files, events)} :
              /\ result' = d.result
              /\ files' = d.files
              /\ events' = d.events
              /\ call' = Call("download_to_file", cube_id, selection, config,
                              resp, session, Len(d.events) > Len(events))
    /\ ops' = ops + 1
    /\ UNCHANGED <<table, args, pc, logging_verbosity, session, opens, closes,
                   loop>>

CallDownloadToDataframe ==
    /\ pc = "lib"
    /\ ops < MaxOps
    /\ \E cube_id \in {"rentm"}, selection \in Selections,
          config \in Configs, resp \in Responses :
          \E d \in {download_to_dataframe(logging_verbosity, session,
                                          cube_id, selection, config, resp,
                                          files, events)} :
              /\ result' = d.result
              /\ files' = d.files
              /\ events' = d.events
              /\ call' = Call("download_to_dataframe", cube_id, selection,
                              config, resp, session,
                              Len(d.events) > Len(events))
    /\ ops' = ops + 1
    /\ UNCHANGED <<table, args, pc, logging_verbosity, session, opens, closes,
                   loop>>

NextEngine ==
    \/ Enter
    \/ Exit
    \/ CallDownloadToFile
    \/ CallDownloadToDataframe

SpecEngine == InitEngine /\ [][NextEngine]_vars


-----------------------------------------------------------------------------
(* A caller of download_to_files inside or outside the engine's scope *)

InitFiles ==
    /\ table = <<HeaderRow>>
    /\ args = NoArgs
    /\ pc = "new"
    /\ logging_verbosity \in {init_verbosity(v) : v \in Verbosities}
    /\ session = "None"
    /\ opens = 0
    /\ closes = 0
    /\ events = <<>>
    /\ files = NoFiles
    /\ loop = NoLoop
    /\ result = NoResult
    /\ call = NoCall
    /\ ops = 0

\* with SNBDataEngine(...) as snb:
FilesEnter ==
    /\ pc = "new"
    /\ session' = "live"
    /\ opens' = opens + 1
    /\ pc' = "open"
    /\ UNCHANGED <<table, args, logging_verbosity, closes, events, files,
                   loop, result, call, ops>>

\* download_to_files(cubes_ids, selection): paths = []
FilesCall ==
    /\ pc \in {"new", "open"}
    /\ \E cubes_ids \in SeqsUpTo(DataIds, MaxCubes),
          selection \in {None, "balsiscrevol"} :
          /\ loop' = [cubes_ids |-> cubes_ids, i |-> 1, paths |-> <<>>]
          /\ call' = Call("download_to_files", "", selection, EmptyDict,
                          NoResp, session, FALSE)
    /\ pc' = "loop"
    /\ UNCHANGED <<table, args, logging_verbosity, session, opens, closes,
                   events, files, result, ops>>

\* for cube_id in cubes_ids: download, append, pause
FilesIter ==
    /\ pc = "loop"
    /\ loop.i <= Len(loop.cubes_ids)
    /\ \E resp \in Responses, draw \in RandomDraws :
          \E r \in {files_iteration(logging_verbosity, session, loop,
                                    call.selection, call.config, resp, draw,
                                    files, events)} :
              /\ loop' = r.loop
              /\ result' = r.result
              /\ files' = r.files
              /\ events' = r.events
              /\ pc' = IF r.result.kind = "error" THEN "raised" ELSE "loop"
              /\ call' = Call("download_to_files", loop.cubes_ids[loop.i],
                              call.selection, call.config, resp, session,
                              \E j \in Len(events) + 1 .. Len(r.events) :
                                  r.events[j].op = "get")
    /\ ops' = ops + 1
    /\ UNCHANGED <<table, args, logging_verbosity, session, opens, closes>>

\* return paths
FilesReturn ==
    /\ pc = "loop"
    /\ loop.i > Len(loop.cubes_ids)
    /\ result' = Ok(<<>>, loop.paths, <<>>)
    /\ pc' = "returned"
    /\ UNCHANGED <<table, args, logging_verbosity, session, opens, closes,
                   events, files, loop, call, ops>>

\* the end of the with block, or the end of a caller that never entered
FilesExit ==
    /\ pc \in {"returned", "raised"}
    /\ session' = exit_session(session)
    /\ closes' = closes + exit_closes(session)
    /\ pc' = "done"
    /\ UNCHANGED <<table, args, logging_verbosity, opens, events, files,
                   loop, result, call, ops>>

NextFiles ==
    \/ FilesEnter
    \/ FilesCall
    \/ FilesIter
    \/ FilesReturn
    \/ FilesExit

SpecFiles == InitFiles /\ [][NextFiles]_vars

-----------------------------------------------------------------------------
(* The registry on its own *)

InitRegistry ==
    /\ table \in Tables
    /\ args = NoArgs
    /\ pc = "registry"
    /\ logging_verbosity = None
    /\ session = "None"
    /\ opens = 0
    /\ closes = 0
    /\ events = <<>>
    /\ files = NoFiles
    /\ loop = NoLoop
    /\ result = NoResult
    /\ call = NoCall
    /\ ops = 0

Answer(b) == IF b THEN Ok(<<>>, <<>>, <<"True">>) ELSE Ok(<<>>, <<>>, <<"False">>)

\* is_valid_cube_id(cube_id)
CallIsValidCubeId ==
    /\ pc = "registry"
    /\ ops < MaxOps
    /\ \E cube_id \in QueryIds :
          /\ result' = Answer(is_valid_cube_id(table, cube_id))
          /\ call' = Call("is_valid_cube_id", cube_id, None, EmptyDict,
                          NoResp, session, FALSE)
    /\ ops' = ops + 1
    /\ UNCHANGED <<table, args, pc, logging_verbosity, session, opens, closes,
                   events, files, loop>>

\* cube_id in valid_cubes_ids()
CallValidCubesIds ==
    /\ pc = "registry"
    /\ ops < MaxOps
    /\ \E cube_id \in QueryIds :
          /\ result' = Answer(In(cube_id, valid_cubes_ids(table)))
          /\ call' = Call("valid_cubes_ids", cube_id, None, EmptyDict,
                          NoResp, session, FALSE)
    /\ ops' = ops + 1
    /\ UNCHANGED <<table, args, pc, logging_verbosity, session, opens, closes,
                   events, files, loop>>

NextRegistry ==
    \/ CallIsValidCubeId
    \/ CallValidCubesIds

SpecRegistry == InitRegistry /\ [][NextRegistry]_vars

-----------------------------------------------------------------------------
(* Properties of the registry (SpecRegistry) *)

\* C4: the validity check (is_valid_cube_id, membership in valid_cubes_ids)
\* is true exactly when the string is the identifier of a data record of
\* the reference table; the first line is the column header, and its
\* identifier-column name is not a valid identifier.
C4_ValidIffDataRecord ==
    call.op \in {"is_valid_cube_id", "valid_cubes_ids"} =>
        (result.df = <<"True">> <=> call.cube_id \in RecordIds(table))

-----------------------------------------------------------------------------
(* Properties of the command line run (Spec) *)

\* The identifier is the first field of some line of the reference table.
InTable(id) == \E i \in 1..Len(table) : table[i][1] = id

RequestedCube(e) == e.url[2]

C7_ReleasedOnEveryExit ==
    /\ [](pc = "done" /\ opens > 0 => session = "closed" /\ closes = 1)
    /\ [][(pc # "done" /\ pc' = "done" /\ opens > 0) =>
              /\ session = "live"
              /\ session' = "closed"
              /\ closes' = closes + 1
              /\ result' = result]_vars
    /\ [][(opens > 0 /\ pc # "exit" /\ result'.kind = "error") =>
              pc' = "exit"]_vars

\* A run whose fetch raised has left the scope.
C7_Witness ==
    /\ pc = "done"
    /\ opens = 1
    /\ session = "closed"
    /\ result.kind = "error"
    /\ result.err \in {"ConnectionError", "ChunkedEncodingError",
                       "ParserError"}

-----------------------------------------------------------------------------
(* Properties of the engine under a library caller (SpecEngine) *)

FetchOps == {"download_to_file", "download_to_dataframe"}

\* C1: a fetch operation invoked while the engine is Unopened or Closed
\* fails with an InvalidStateError and issues no network request; a fetch
\* reaches the network only in the Open state.
C1_FetchOutsideOpenFails ==
    call.op \in FetchOps =>
        /\ call.before # "live" =>
               (result = Raise("InvalidStateError") /\ ~call.sent)
        /\ call.sent => call.before = "live"

\* C5: the request built by _get_stream targets {base}/{identifier}/data/csv/en
\* with outputFormat=nonPivoted; it has
\* selectionConfigurations=selectionConfiguration,{selection} exactly when a
\* selection is supplied and no such parameter when none is; extra
\* parameters never override these.
C5_RequestShape ==
    (call.op \in FetchOps /\ call.sent) =>
        LET req == events[Len(events)]
        IN  /\ req.url = <<base_url, call.cube_id, "data/csv/en">>
            /\ "outputFormat" \in DOMAIN req.params
            /\ req.params["outputFormat"] = <<"nonPivoted">>
            /\ call.selection # None =>
                   /\ "selectionConfigurations" \in DOMAIN req.params
                   /\ req.params["selectionConfigurations"] =
                          <<"selectionConfiguration", call.selection>>
            /\ call.selection = None =>
                   "selectionConfigurations" \notin DOMAIN req.params

\* C6: closing is idempotent: a second scope exit does not raise, leaves
\* the engine Closed and does not release the session again; the session is
\* released exactly once per open.
C6_CloseIdempotent ==
    /\ closes <= opens
    /\ (call.op = "exit" /\ call.before = "closed") =>
           (session = "closed" /\ result.kind # "error")

\* C9: diagnostics never affect return values or control flow: the call
\* ends as it ends on an engine with diagnostics disabled, for the same
\* identifier, selection and server response.
C9_DiagnosticsDoNotChangeOutcome ==
    /\ call.op = "download_to_file" =>
           LET path == FilePath(Folder, call.cube_id, call.selection)
               off  == download_to_file(None, call.before, call.cube_id,
                                        call.selection, call.config,
                                        call.resp, NoFiles, <<>>)
           IN  /\ result = off.result
               /\ path \in DOMAIN off.files =>
                      (path \in DOMAIN files /\ files[path] = off.files[path])
    /\ call.op = "download_to_dataframe" =>
           result = download_to_dataframe(None, call.before, call.cube_id,
                                          call.selection, call.config,
                                          call.resp, NoFiles, <<>>).result

\* C10: download_to_file never inspects the HTTP status: on an open engine,
\* whenever the connection is established and the stream completes, for any
\* status code the body is written to {folder}/{id}_{selection-or-all}.csv,
\* replacing what was there, and the path is returned; an error arises only
\* from a connection or stream failure.
C10_StatusNeverInspected ==
    (call.op = "download_to_file" /\ call.before = "live") =>
        LET path == FilePath(Folder, call.cube_id, call.selection)
        IN  /\ (call.resp.conn = "ok" /\ call.resp.stream = "complete") =>
                   /\ result = Ok(path, <<>>, <<>>)
                   /\ path \in DOMAIN files
                   /\ files[path] = Body(call.cube_id, call.resp)
            /\ result.kind = "error" =>
                   (call.resp.conn = "refused"
                        \/ call.resp.stream = "interrupted")


-----------------------------------------------------------------------------
(* Properties of download_to_files (SpecFiles) *)

\* How the download of the last pass ends, from its arguments and answer.
LastDownload ==
    download_to_file(logging_verbosity, call.before, call.cube_id,
                     call.selection, call.config, call.resp, NoFiles,
                     <<>>).result

InPass == call.op = "download_to_files" /\ call.cube_id # ""

\* C3: download_to_files over N identifiers makes exactly N-1 pauses when
\* N > 1 and none when N = 1, each between two consecutive downloads: none
\* before the first download or after the last one.
C3_PausesOnlyBetweenDownloads ==
    pc = "returned" =>
        LET N == Len(loop.cubes_ids)
        IN  /\ Len(Pauses(events)) = IF N > 1 THEN N - 1 ELSE 0
            /\ \A i \in 1..Len(events) :
                   IsPause(events[i]) =>
                       /\ 1 < i /\ i < Len(events)
                       /\ IsGet(events[i - 1])
                       /\ IsGet(events[i + 1])

\* C8: download_to_files takes the identifiers in input order, and when the
\* download of the k-th one fails the operation ends with that same error:
\* no request and no pause for a later identifier, the files of
\* identifiers 1..k-1 are on disk, and no list of paths is returned.
C8_FailureAbortsSequence ==
    LET cubes == loop.cubes_ids
        N     == Len(cubes)
        k     == loop.i
        gets  == Gets(events)
    IN  /\ Len(gets) <= N
        /\ \A j \in 1..Len(gets) :
               gets[j].url = <<base_url, cubes[j], "data/csv/en">>
        /\ (InPass /\ LastDownload.kind = "error") =>
               (pc \in {"raised", "done"} /\ result = LastDownload)
        /\ (pc \in {"raised", "done"} /\ result.kind = "error") =>
               /\ result = LastDownload
               /\ result.paths = <<>>
               /\ call.cube_id = cubes[k]
               /\ Len(gets) = IF call.sent THEN k ELSE k - 1
               /\ Len(Pauses(events)) = IF N > 1 THEN k - 1 ELSE 0
               /\ events # <<>> => IF call.sent
                                   THEN IsGet(events[Len(events)])
                                   ELSE IsPause(events[Len(events)])
               /\ \A j \in 1..(k - 1) :
                      FilePath(Folder, cubes[j], call.selection)
                          \in DOMAIN files

\* The third of three downloads has failed after its request was sent.
C8_Witness ==
    /\ pc = "raised"
    /\ Len(loop.cubes_ids) = 3
    /\ loop.i = 3
    /\ call.sent
    /\ Len(Gets(events)) = 3
    /\ Len(Pauses(events)) = 2


====
